---- MODULE Spec2Model ----
(***************************************************************************)
(* Model of the two background-removal scripts of the repository:          *)
(*   src/remove_background.py       (remove_white_background, main)        *)
(*   src/remove_laya_background.py  (remove_grey_background, main)         *)
(*                                                                         *)
(* A file is a record: kind "none" (no file at that path), "corrupt" (a    *)
(* file the image library cannot decode) or "image" (a decodable image of  *)
(* a mode, a width, a height and one pixel tuple per position, row by      *)
(* row).  The file system maps every path to a file.                        *)
(*                                                                         *)
(* A behaviour of Spec is either                                           *)
(*   - main of one script, run MaxRuns times in a row (InitMain), or       *)
(*   - the filter function of one script called directly with a threshold  *)
(*     drawn from Thresholds, then again on its own output, then on the    *)
(*     same input with a second threshold (InitFilter).                    *)
(***************************************************************************)
EXTENDS Integers, Sequences, FiniteSets, TLC

VARIABLES script,      \* which script is run: "white" or "grey"
          fs,          \* the file system: path -> file
          unwritable,  \* the paths that cannot be opened for writing
          pc,          \* position in main or in the direct calls
          run,         \* number of the current run of main
          stdout,      \* what the current run has printed
          written,     \* the paths saved by the current run, in order
          input0,      \* history: the input file before the first run
          fs0,         \* history: the file system when the current run started
          th,          \* direct calls: threshold of the first and second call
          th2          \* direct calls: threshold of the third call

vars == <<script, fs, unwritable, pc, run, stdout, written, input0, fs0, th, th2>>

(***************************************************************************)
(* Bounds of the model.                                                    *)
(***************************************************************************)
MaxPixels == 2     \* an image has at most MaxPixels pixels (width * height)
MaxRuns == 2       \* main is run at most MaxRuns times in a row
ChanLevels == 8    \* number of channel levels below 255 in the dense pixels

(***************************************************************************)
(* Paths and constants of the two main functions.                          *)
(* Every path lies in the same directory, so the base name stands for it.  *)
(***************************************************************************)
white_input_path == "vhi.jpg"
white_output_path == "vhi.png"
white_backup_path == "vhi_aggressive.png"
white_threshold_1 == 30
white_threshold_2 == 50

grey_input_path == "laya.png"
grey_output_path == "laya_transparent.png"
grey_conservative_path == "laya_conservative.png"
grey_aggressive_path == "laya_aggressive.png"
grey_threshold_1 == 50
grey_threshold_2 == 30
grey_threshold_3 == 80

\* the constant of the grey test "color_variance < 30"
variance_limit == 30

\* the paths of the direct calls of the filter functions
h_in == "h_in.png"
h_out == "h_out.png"
h_again == "h_again.png"
h_other == "h_other.png"

WhitePaths == {white_input_path, white_output_path, white_backup_path}
GreyPaths == {grey_input_path, grey_output_path, grey_conservative_path,
              grey_aggressive_path}
HarnessPaths == {h_in, h_out, h_again, h_other}
Paths == WhitePaths \cup GreyPaths \cup HarnessPaths

input_path(s) == IF s = "white" THEN white_input_path ELSE grey_input_path

\* variant: the first call resumes from the last output of an earlier run
call_input_path_resume(s, k, fsys) ==
  LET last == IF s = "white" THEN white_backup_path ELSE grey_aggressive_path IN
  IF k = 1 /\ fsys[last].kind = "image" THEN last ELSE input_path(s)

\* the input path main passes to its k-th call of the filter function
call_input_path(s, k, fsys) == input_path(s)

OutputPaths(s) ==
  IF s = "white" THEN <<white_output_path, white_backup_path>>
  ELSE <<grey_output_path, grey_conservative_path, grey_aggressive_path>>

Range(q) == {q[i] : i \in 1..Len(q)}

(***************************************************************************)
(* Files and images.                                                       *)
(***************************************************************************)
NoFile == [kind |-> "none", format |-> "", mode |-> "", w |-> 0, h |-> 0,
           data |-> <<>>]
CorruptFile == [kind |-> "corrupt", format |-> "", mode |-> "", w |-> 0,
                h |-> 0, data |-> <<>>]

ImageFile(format, mode, w, h, data) ==
  [kind |-> "image", format |-> format, mode |-> mode, w |-> w, h |-> h,
   data |-> data]

\* variant: the check of the input file always succeeds
exists_any(fsys, p) == TRUE

\* os.path.exists
exists(fsys, p) == fsys[p].kind # "none"

\* Image.convert("RGBA") on one pixel of a mode: L replicates the grey level,
\* RGB keeps the colour; both become opaque; RGBA is kept as it is.
convert_pixel(mode, px) ==
  CASE mode = "L" -> <<px[1], px[1], px[1], 255>>
    [] mode = "RGB" -> <<px[1], px[2], px[3], 255>>
    [] OTHER -> px

\* Image.open(...).convert("RGBA"): the decoded image in mode RGBA
convert(f) ==
  [mode |-> "RGBA", w |-> f.w, h |-> f.h,
   data |-> [i \in 1..Len(f.data) |-> convert_pixel(f.mode, f.data[i])]]

\* the pixel written for a background pixel
Sentinel == <<255, 255, 255, 0>>

Abs(x) == IF x < 0 THEN -x ELSE x
Max3(x, y, z) ==
  IF x >= y /\ x >= z THEN x ELSE IF y >= z THEN y ELSE z

\* variant: the channels are compared to the threshold itself
is_white_raw(item, threshold) ==
  /\ item[1] > threshold
  /\ item[2] > threshold
  /\ item[3] > threshold

\* variant: the green channel is compared to the threshold itself
is_white_mixed(item, threshold) ==
  /\ item[1] > 255 - threshold
  /\ item[2] > threshold
  /\ item[3] > 255 - threshold

\* the test of remove_white_background on one RGBA pixel
is_white(item, threshold) ==
  /\ item[1] > 255 - threshold
  /\ item[2] > 255 - threshold
  /\ item[3] > 255 - threshold

\* The test of remove_grey_background on one RGBA pixel.  The code divides
\* by 3 in floating point; the model keeps every quantity multiplied by 3,
\* which decides the two comparisons exactly as the code does: the
\* deviations are multiples of 1/3 and the limits are integers.
avg_color3(item) == item[1] + item[2] + item[3]

color_variance3(item) ==
  Max3(Abs(3 * item[1] - avg_color3(item)),
       Abs(3 * item[2] - avg_color3(item)),
       Abs(3 * item[3] - avg_color3(item)))

\* variant: the variance test is not strict
is_grey_le(item, grey_threshold) ==
  \/ /\ color_variance3(item) <= 3 * variance_limit
     /\ avg_color3(item) > 3 * (255 - grey_threshold)
  \/ /\ item[1] > 255 - grey_threshold
     /\ item[2] > 255 - grey_threshold
     /\ item[3] > 255 - grey_threshold

is_grey(item, grey_threshold) ==
  \/ /\ color_variance3(item) < 3 * variance_limit
     /\ avg_color3(item) > 3 * (255 - grey_threshold)
  \/ /\ item[1] > 255 - grey_threshold
     /\ item[2] > 255 - grey_threshold
     /\ item[3] > 255 - grey_threshold

\* variant: a pixel that is kept is faded half way to white
RECURSIVE white_new_data_fade(_, _)
white_new_data_fade(data, threshold) ==
  IF data = <<>> THEN <<>>
  ELSE LET item == Head(data) IN
       <<IF is_white(item, threshold) THEN Sentinel
         ELSE <<(item[1] + 255) \div 2, (item[2] + 255) \div 2,
                (item[3] + 255) \div 2, item[4]>>>>
         \o white_new_data_fade(Tail(data), threshold)

\* the loop of remove_white_background: one append per input pixel
RECURSIVE white_new_data(_, _)
white_new_data(data, threshold) ==
  IF data = <<>> THEN <<>>
  ELSE LET item == Head(data) IN
       <<IF is_white(item, threshold) THEN Sentinel ELSE item>>
         \o white_new_data(Tail(data), threshold)

\* variant: a pixel that is kept is made opaque
RECURSIVE grey_new_data_opaque(_, _)
grey_new_data_opaque(data, grey_threshold) ==
  IF data = <<>> THEN <<>>
  ELSE LET item == Head(data) IN
       <<IF is_grey(item, grey_threshold) THEN Sentinel
         ELSE <<item[1], item[2], item[3], 255>>>>
         \o grey_new_data_opaque(Tail(data), grey_threshold)

\* the loop of remove_grey_background: one append per input pixel
RECURSIVE grey_new_data(_, _)
grey_new_data(data, grey_threshold) ==
  IF data = <<>> THEN <<>>
  ELSE LET item == Head(data) IN
       <<IF is_grey(item, grey_threshold) THEN Sentinel ELSE item>>
         \o grey_new_data(Tail(data), grey_threshold)

\* variant: the pixels are put into a new image of one row
putdata_flat(img, seq) ==
  [mode |-> img.mode, w |-> Len(seq), h |-> 1, data |-> seq]

\* Image.putdata: copies the sequence into the image from the first pixel
\* on; the size of the image does not change
putdata(img, seq) ==
  [img EXCEPT !.data = [i \in 1..Len(img.data) |->
                          IF i <= Len(seq) THEN seq[i] ELSE img.data[i]]]

\* Image.save(output_path, "PNG") of an RGBA image: PNG is lossless
save(fsys, output_path, img) ==
  [fsys EXCEPT ![output_path] = ImageFile("PNG", img.mode, img.w, img.h, img.data)]

(***************************************************************************)
(* The two filter functions.  The result is the file system after the call *)
(* and the step that raised, "none" when the call returned normally.       *)
(***************************************************************************)
\* variant: the image is saved to the path it was read from
remove_white_background_inplace(fsys, unw, in_path, out_path, threshold) ==
  IF fsys[in_path].kind # "image"
  THEN [fs |-> fsys, fault |-> "open"]
  ELSE LET img == convert(fsys[in_path])
           new_data == white_new_data(img.data, threshold)
           img2 == putdata(img, new_data)
       IN IF out_path \in unw
          THEN [fs |-> fsys, fault |-> "save"]
          ELSE [fs |-> save(fsys, in_path, img2), fault |-> "none"]

remove_white_background(fsys, unw, in_path, out_path, threshold) ==
  IF fsys[in_path].kind # "image"
  THEN [fs |-> fsys, fault |-> "open"]
  ELSE LET img == convert(fsys[in_path])
           new_data == white_new_data(img.data, threshold)
           img2 == putdata(img, new_data)
       IN IF out_path \in unw
          THEN [fs |-> fsys, fault |-> "save"]
          ELSE [fs |-> save(fsys, out_path, img2), fault |-> "none"]

remove_grey_background(fsys, unw, in_path, out_path, grey_threshold) ==
  IF fsys[in_path].kind # "image"
  THEN [fs |-> fsys, fault |-> "open"]
  ELSE LET img == convert(fsys[in_path])
           new_data == grey_new_data(img.data, grey_threshold)
           img2 == putdata(img, new_data)
       IN IF out_path \in unw
          THEN [fs |-> fsys, fault |-> "save"]
          ELSE [fs |-> save(fsys, out_path, img2), fault |-> "none"]

(***************************************************************************)
(* The inputs.                                                             *)
(***************************************************************************)
\* distance of two neighbouring channel levels: half the variance limit, so
\* that deviations fall below, on and above the limit
ChanStep == variance_limit \div 2

Channels == {255 - k * ChanStep : k \in 0..ChanLevels} \cup {0}

\* every RGBA pixel over the channel levels, transparent or opaque
DensePixels == {<<r, g, b, a>> : r \in Channels, g \in Channels,
                                 b \in Channels, a \in {0, 255}}

\* a few pixels of each mode for the images of more than one pixel
Palette(mode) ==
  CASE mode = "RGBA" -> {Sentinel, <<240, 240, 240, 255>>, <<210, 210, 210, 128>>,
                         <<255, 200, 200, 255>>, <<100, 150, 200, 255>>}
    [] mode = "RGB" -> {<<250, 250, 250>>, <<255, 255, 215>>, <<10, 20, 30>>}
    [] OTHER -> {<<230>>, <<90>>}

Modes == {"RGBA", "RGB", "L"}

Sizes == {wh \in (1..MaxPixels) \X (1..MaxPixels) : wh[1] * wh[2] <= MaxPixels}

\* JPEG has no alpha channel
InputFormat(mode) == IF mode = "RGBA" THEN "PNG" ELSE "JPEG"

SmallImages ==
  UNION {UNION {{ImageFile(InputFormat(m), m, wh[1], wh[2], d) :
                   d \in [1..(wh[1] * wh[2]) -> Palette(m)]} : wh \in Sizes} :
         m \in Modes}

DenseImages == {ImageFile("PNG", "RGBA", 1, 1, <<px>>) : px \in DensePixels}

\* an output file left by something else before the first run
StaleFile == ImageFile("PNG", "RGBA", 1, 1, <<<<1, 2, 3, 4>>>>)

(***************************************************************************)
(* main of one script, run MaxRuns times.                                  *)
(***************************************************************************)
InitMain ==
  /\ script \in {"white", "grey"}
  /\ unwritable \in SUBSET Range(OutputPaths(script))
  /\ \E f \in {NoFile, CorruptFile} \cup SmallImages, stale \in BOOLEAN :
       /\ fs = [p \in Paths |->
                  IF p = input_path(script) THEN f
                  ELSE IF stale /\ p \in Range(OutputPaths(script))
                       THEN StaleFile ELSE NoFile]
       /\ input0 = f
  /\ fs0 = fs
  /\ pc = "start"
  /\ run = 1
  /\ stdout = <<>>
  /\ written = <<>>
  /\ th = 0
  /\ th2 = 0

\* variant: main catches the fault of a call and goes on
Call_caught(res, out_path, also, nxt) ==
  /\ fs' = res.fs
  /\ pc' = nxt
  /\ IF res.fault = "none"
     THEN /\ stdout' = stdout \o <<"removed">> \o also
          /\ written' = Append(written, out_path)
     ELSE /\ stdout' = stdout
          /\ written' = written
  /\ UNCHANGED <<script, unwritable, run, input0, fs0, th, th2>>

\* one call of a filter function from main, followed by main's own print
\* (also) when the call returned; nxt is the position after the call
Call(res, out_path, also, nxt) ==
  /\ fs' = res.fs
  /\ IF res.fault = "none"
     THEN /\ pc' = nxt
          /\ stdout' = stdout \o <<"removed">> \o also
          /\ written' = Append(written, out_path)
     ELSE /\ pc' = "fault_" \o res.fault
          /\ stdout' = stdout
          /\ written' = written
  /\ UNCHANGED <<script, unwritable, run, input0, fs0, th, th2>>

\* remove_background.py, main: the check of the input file
white_main_exists ==
  /\ script = "white"
  /\ pc = "start"
  /\ IF ~exists(fs, white_input_path)
     THEN /\ stdout' = Append(stdout, "error_not_found")
          /\ pc' = "returned"
     ELSE /\ stdout' = Append(stdout, "processing")
          /\ pc' = "call1"
  /\ UNCHANGED <<script, fs, unwritable, run, written, input0, fs0, th, th2>>

\* remove_background.py, main: the call with threshold 30
white_main_call1 ==
  /\ script = "white"
  /\ pc = "call1"
  /\ Call(remove_white_background(fs, unwritable,
                                  call_input_path("white", 1, fs),
                                  white_output_path, white_threshold_1),
          white_output_path, <<>>, "call2")

\* remove_background.py, main: the call with threshold 50
white_main_call2 ==
  /\ script = "white"
  /\ pc = "call2"
  /\ Call(remove_white_background(fs, unwritable,
                                  call_input_path("white", 2, fs),
                                  white_backup_path, white_threshold_2),
          white_backup_path, <<"also_aggressive">>, "done")

\* remove_laya_background.py, main: the check of the input file
grey_main_exists ==
  /\ script = "grey"
  /\ pc = "start"
  /\ IF ~exists(fs, grey_input_path)
     THEN /\ stdout' = Append(stdout, "error_not_found")
          /\ pc' = "returned"
     ELSE /\ stdout' = Append(stdout, "processing")
          /\ pc' = "call1"
  /\ UNCHANGED <<script, fs, unwritable, run, written, input0, fs0, th, th2>>

\* remove_laya_background.py, main: the call with threshold 50
grey_main_call1 ==
  /\ script = "grey"
  /\ pc = "call1"
  /\ Call(remove_grey_background(fs, unwritable,
                                 call_input_path("grey", 1, fs),
                                 grey_output_path, grey_threshold_1),
          grey_output_path, <<>>, "call2")

\* remove_laya_background.py, main: the call with threshold 30
grey_main_call2 ==
  /\ script = "grey"
  /\ pc = "call2"
  /\ Call(remove_grey_background(fs, unwritable,
                                 call_input_path("grey", 2, fs),
                                 grey_conservative_path, grey_threshold_2),
          grey_conservative_path, <<"also_conservative">>, "call3")

\* remove_laya_background.py, main: the call with threshold 80
grey_main_call3 ==
  /\ script = "grey"
  /\ pc = "call3"
  /\ Call(remove_grey_background(fs, unwritable,
                                 call_input_path("grey", 3, fs),
                                 grey_aggressive_path, grey_threshold_3),
          grey_aggressive_path, <<"also_aggressive">>, "done")

Ended == pc \in {"returned", "done", "fault_open", "fault_save"}

\* the script is started again on the files the last run left
Rerun ==
  /\ Ended
  /\ run < MaxRuns
  /\ run' = run + 1
  /\ pc' = "start"
  /\ stdout' = <<>>
  /\ written' = <<>>
  /\ fs0' = fs
  /\ UNCHANGED <<script, fs, unwritable, input0, th, th2>>

(***************************************************************************)
(* The filter functions called directly.                                   *)
(***************************************************************************)
\* the thresholds of the two main functions, the ends of the documented
\* range 0-255, and two thresholds that put a channel level on the limit
\* and just above it
Thresholds ==
  {0, 255, ChanStep, ChanStep + 1}
    \cup {white_threshold_1, white_threshold_2}
    \cup {grey_threshold_1, grey_threshold_2, grey_threshold_3}

\* the filter function of a script
Filter(s, fsys, unw, in_path, out_path, threshold) ==
  IF s = "white"
  THEN remove_white_background(fsys, unw, in_path, out_path, threshold)
  ELSE remove_grey_background(fsys, unw, in_path, out_path, threshold)

InitFilter ==
  /\ script \in {"white", "grey"}
  /\ unwritable = {}
  /\ \E f \in DenseImages \cup SmallImages :
       /\ fs = [p \in Paths |-> IF p = h_in THEN f ELSE NoFile]
       /\ input0 = f
  /\ fs0 = fs
  /\ th \in Thresholds
  /\ th2 = th
  /\ pc = "h_start"
  /\ run = 1
  /\ stdout = <<>>
  /\ written = <<>>

HarnessCall(res, out_path, nxt) ==
  /\ fs' = res.fs
  /\ pc' = IF res.fault = "none" THEN nxt ELSE "h_fault_" \o res.fault
  /\ stdout' = IF res.fault = "none" THEN Append(stdout, "removed") ELSE stdout
  /\ written' = IF res.fault = "none" THEN Append(written, out_path) ELSE written
  /\ UNCHANGED <<script, unwritable, run, input0, fs0, th>>

\* the filter function on the input image with threshold th
filter_apply ==
  /\ pc = "h_start"
  /\ HarnessCall(Filter(script, fs, unwritable, h_in, h_out, th), h_out, "h_applied")
  /\ UNCHANGED th2

\* the filter function on its own output with the same threshold
filter_again ==
  /\ pc = "h_applied"
  /\ HarnessCall(Filter(script, fs, unwritable, h_out, h_again, th), h_again, "h_again")
  /\ UNCHANGED th2

\* the filter function on the input image with any threshold
filter_other ==
  /\ pc = "h_again"
  /\ \E t \in Thresholds :
       /\ th2' = t
       /\ HarnessCall(Filter(script, fs, unwritable, h_in, h_other, t), h_other, "h_done")

Init == InitMain \/ InitFilter

Next ==
  \/ white_main_exists
  \/ white_main_call1
  \/ white_main_call2
  \/ grey_main_exists
  \/ grey_main_call1
  \/ grey_main_call2
  \/ grey_main_call3
  \/ Rerun
  \/ filter_apply
  \/ filter_again
  \/ filter_other

Spec == Init /\ [][Next]_vars

(***************************************************************************)
(* The properties.                                                         *)
(*                                                                         *)
(* They are stated over the calls of a filter function that have returned  *)
(* in the current state: the file the call read, the file it wrote, its    *)
(* threshold and the script it belongs to.                                 *)
(***************************************************************************)
Transparent == <<255, 255, 255, 0>>

\* the pixels of a file as the loop of the filter reads them: red, green,
\* blue and alpha; a file without alpha is opaque, a grey level is the
\* value of the three colours
Rgba(f) ==
  [i \in 1..Len(f.data) |->
     LET p == f.data[i] IN
     IF Len(p) = 4 THEN p
     ELSE IF Len(p) = 3 THEN <<p[1], p[2], p[3], 255>>
     ELSE <<p[1], p[1], p[1], 255>>]

\* the thresholds of main in the order of its calls
MainThresholds(s) == IF s = "white" THEN <<30, 50>> ELSE <<50, 30, 80>>

\* the paths of main as the scripts name them
MainInput(s) == IF s = "white" THEN "vhi.jpg" ELSE "laya.png"
MainOutputs(s) ==
  IF s = "white" THEN <<"vhi.png", "vhi_aggressive.png">>
  ELSE <<"laya_transparent.png", "laya_conservative.png", "laya_aggressive.png">>

InMain == pc \in {"start", "call1", "call2", "call3", "returned", "done",
                  "fault_open", "fault_save"}
Faulted == pc \in {"fault_open", "fault_save"}

ReturnedCalls ==
  (IF pc \in {"h_applied", "h_again", "h_done"}
   THEN {[variant |-> script, src |-> input0, out |-> fs[h_out], t |-> th]}
   ELSE {})
  \cup
  (IF pc \in {"h_again", "h_done"}
   THEN {[variant |-> script, src |-> fs[h_out], out |-> fs[h_again], t |-> th]}
   ELSE {})
  \cup
  (IF pc = "h_done"
   THEN {[variant |-> script, src |-> input0, out |-> fs[h_other], t |-> th2]}
   ELSE {})
  \cup
  {[variant |-> script, src |-> input0, out |-> fs[written[k]],
    t |-> MainThresholds(script)[k]] :
      k \in {j \in 1..Len(written) : InMain /\ j <= Len(MainThresholds(script))}}

\* red, green and blue all strictly above 255 - t
AllAbove(px, t) == \A k \in 1..3 : px[k] > 255 - t

\* three times the absolute deviation of channel k from the average
Deviation3(px, k) ==
  LET d == 3 * px[k] - (px[1] + px[2] + px[3]) IN IF d < 0 THEN 0 - d ELSE d

\* (a): every channel deviates from the average by less than 30 and the
\* average is above 255 - t
NearGrey(px, t) ==
  /\ \A k \in 1..3 : Deviation3(px, k) < 90
  /\ px[1] + px[2] + px[3] > 3 * (255 - t)

Classified(variant, px, t) ==
  IF variant = "white" THEN AllAbove(px, t)
  ELSE NearGrey(px, t) \/ AllAbove(px, t)

\* C1: in both filter functions, for every threshold, an input pixel whose
\* red, green and blue are all strictly above 255 - threshold, whatever its
\* alpha, is written as (255, 255, 255, 0) at the same position.
C1_NearWhiteErased ==
  \A c \in ReturnedCalls :
    \A i \in 1..Len(c.src.data) :
      AllAbove(Rgba(c.src)[i], c.t)
        => /\ c.out.kind = "image"
           /\ i \in DOMAIN c.out.data
           /\ c.out.data[i] = Transparent

\* a call erased an opaque and a transparent near-white pixel
C1_Witness ==
  \E c \in ReturnedCalls :
    /\ \E i \in 1..Len(c.src.data) :
         /\ AllAbove(Rgba(c.src)[i], c.t)
         /\ Rgba(c.src)[i] # Transparent
         /\ Rgba(c.src)[i][4] = 255
         /\ c.out.data[i] = Transparent
    /\ c.t = 16
    /\ c.variant = "white"

\* C2: in both filter functions a pixel that fails the classification is
\* written with its four channels as in the input at the same position, and
\* only pixels that satisfy the classification are changed.
C2_OthersKept ==
  \A c \in ReturnedCalls :
    /\ c.out.kind = "image"
    /\ Len(c.out.data) = Len(c.src.data)
    /\ \A i \in 1..Len(c.src.data) :
         /\ ~Classified(c.variant, Rgba(c.src)[i], c.t)
              => c.out.data[i] = Rgba(c.src)[i]
         /\ c.out.data[i] # Rgba(c.src)[i]
              => Classified(c.variant, Rgba(c.src)[i], c.t)

\* a grey call kept a half-transparent pixel next to a pixel it erased
C2_Witness ==
  \E c \in ReturnedCalls :
    /\ c.variant = "grey"
    /\ Len(c.src.data) = 2
    /\ \E i, j \in 1..2 :
         /\ ~Classified("grey", Rgba(c.src)[i], c.t)
         /\ Rgba(c.src)[i][4] = 128
         /\ c.out.data[i] = Rgba(c.src)[i]
         /\ c.out.data[j] # Rgba(c.src)[j]

\* C3: remove_grey_background writes (255, 255, 255, 0) for a pixel when the
\* largest deviation of red, green and blue from their average is below 30
\* and the average is above 255 - grey_threshold, or when the three are each
\* above 255 - grey_threshold, and writes the input pixel otherwise.
C3_GreyRule ==
  \A c \in ReturnedCalls :
    c.variant = "grey"
      => /\ c.out.kind = "image"
         /\ Len(c.out.data) = Len(c.src.data)
         /\ \A i \in 1..Len(c.src.data) :
              c.out.data[i] =
                IF NearGrey(Rgba(c.src)[i], c.t) \/ AllAbove(Rgba(c.src)[i], c.t)
                THEN Transparent
                ELSE Rgba(c.src)[i]

\* a grey call erased a pixel by (a) alone: one channel is not above the limit
C3_Witness ==
  \E c \in ReturnedCalls :
    /\ c.variant = "grey"
    /\ \E i \in 1..Len(c.src.data) :
         /\ NearGrey(Rgba(c.src)[i], c.t)
         /\ ~AllAbove(Rgba(c.src)[i], c.t)
         /\ \E k \in 1..3 : Deviation3(Rgba(c.src)[i], k) = 75
         /\ c.out.data[i] = Transparent

\* C4: the image a filter function writes has the width and the height of
\* its input and one pixel per input pixel, each at the position of the
\* input pixel it comes from.
C4_SameDimensions ==
  \A c \in ReturnedCalls :
    /\ c.out.kind = "image"
    /\ c.out.w = c.src.w
    /\ c.out.h = c.src.h
    /\ Len(c.out.data) = c.src.w * c.src.h
    /\ \A i \in 1..Len(c.src.data) :
         c.out.data[i] \in {Transparent, Rgba(c.src)[i]}

\* a call on an image of one column and two rows erased the first pixel only
C4_Witness ==
  \E c \in ReturnedCalls :
    /\ c.src.w = 1
    /\ c.src.h = 2
    /\ c.out.w = 1
    /\ c.out.h = 2
    /\ c.src.data[1] # Transparent
    /\ c.out.data[1] = Transparent
    /\ c.out.data[2] # Transparent

\* C5: when the input file does not exist, main prints the error message
\* and returns before any call of the filter function: no file is created
\* or modified and the run does not end in a fault.
C5_MissingInput ==
  (InMain /\ input0.kind = "none")
    => /\ pc \in {"start", "returned"}
       /\ fs = fs0
       /\ written = <<>>
       /\ pc = "start" => stdout = <<>>
       /\ pc = "returned" => stdout = <<"error_not_found">>

\* main returned for a missing input and left the files of others alone
C5_Witness ==
  /\ pc = "returned"
  /\ input0.kind = "none"
  /\ fs[MainInput(script)].kind = "none"
  /\ fs[MainOutputs(script)[1]] = StaleFile
  /\ stdout = <<"error_not_found">>

\* C6: a run of a script after an earlier run on the same input leaves every
\* file with the content the earlier run gave it: in every state of a later
\* run the file system is the one the earlier run ended with.
C6_RunsAgree ==
  (InMain /\ run >= 2) => fs = fs0

\* a second run of the grey script wrote its three outputs again
C6_Witness ==
  /\ run = 2
  /\ pc = "done"
  /\ script = "grey"
  /\ fs["laya_conservative.png"] # fs["laya_transparent.png"]
  /\ fs["laya_transparent.png"] # fs["laya_aggressive.png"]
  /\ fs = fs0

\* C7: a failure of the open or of the save of a call is not caught by
\* main: the run ends in a fault at that step, the calls before it have
\* written their outputs, and no later variant is processed or written.
C7_FaultStopsRun ==
  InMain =>
    /\ pc = "done" => /\ input0.kind = "image"
                      /\ unwritable \cap Range(MainOutputs(script)) = {}
    /\ \A k \in 1..Len(written) :
         /\ k <= Len(MainOutputs(script))
         /\ written[k] = MainOutputs(script)[k]
         /\ written[k] \notin unwritable
    /\ input0.kind = "corrupt" => written = <<>> /\ pc \in {"start", "call1", "fault_open"}
    /\ pc = "fault_open" => input0.kind = "corrupt" /\ written = <<>>
    /\ pc = "fault_save" => /\ Len(written) < Len(MainOutputs(script))
                            /\ MainOutputs(script)[Len(written) + 1] \in unwritable
    /\ Faulted =>
         /\ \A k \in (Len(written) + 1)..Len(MainOutputs(script)) :
              fs[MainOutputs(script)[k]] = fs0[MainOutputs(script)[k]]
         /\ Len(stdout) = 1 + Len(written) + (IF Len(written) >= 2 THEN Len(written) - 1 ELSE 0)

\* the grey script faulted at the save of its second variant: the first is
\* written, the third is not
C7_Witness ==
  /\ script = "grey"
  /\ pc = "fault_save"
  /\ run = 1
  /\ written = <<"laya_transparent.png">>
  /\ fs["laya_transparent.png"].kind = "image"
  /\ fs["laya_conservative.png"].kind = "none"
  /\ fs["laya_aggressive.png"].kind = "none"
  /\ "laya_aggressive.png" \notin unwritable

\* C8: the output paths of a script differ from its input path and from
\* each other; in every state of a run the input file has the content it
\* had before the first run and every output written in the run holds the
\* result of its own call.
C8_DistinctPaths ==
  InMain =>
    /\ Cardinality({input_path(script)} \cup Range(OutputPaths(script)))
         = 1 + Len(MainOutputs(script))
    /\ input_path(script) = MainInput(script)
    /\ OutputPaths(script) = MainOutputs(script)
    /\ fs[MainInput(script)] = input0
    /\ \A j, k \in 1..Len(written) : j # k => written[j] # written[k]
    /\ \A k \in 1..Len(written) : written[k] # MainInput(script)

\* the grey script ended with three different outputs and its input as it was
C8_Witness ==
  /\ script = "grey"
  /\ pc = "done"
  /\ input0.kind = "image"
  /\ fs["laya.png"] = input0
  /\ Cardinality({fs["laya_transparent.png"], fs["laya_conservative.png"],
                  fs["laya_aggressive.png"]}) = 3

TransparentAt(f) == {i \in 1..Len(f.data) : f.data[i] = Transparent}
ChangedAt(src, f) == {i \in 1..Len(f.data) : f.data[i] # Rgba(src)[i]}

\* C9: erasure is monotone in the threshold: for thresholds t1 <= t2 a pixel
\* erased at t1 is erased at t2; when main has ended, the transparent pixels
\* of laya_conservative.png (30) are among those of laya_transparent.png
\* (50), which are among those of laya_aggressive.png (80), and those of
\* vhi.png (30) are among those of vhi_aggressive.png (50).
C9_Monotone ==
  /\ (pc = "h_done" /\ th <= th2)
       => /\ ChangedAt(input0, fs[h_out]) \subseteq ChangedAt(input0, fs[h_other])
          /\ TransparentAt(fs[h_out]) \subseteq TransparentAt(fs[h_other])
  /\ (pc = "done" /\ script = "white")
       => /\ TransparentAt(fs["vhi.png"]) \subseteq TransparentAt(fs["vhi_aggressive.png"])
          /\ ChangedAt(input0, fs["vhi.png"]) \subseteq ChangedAt(input0, fs["vhi_aggressive.png"])
  /\ (pc = "done" /\ script = "grey")
       => /\ TransparentAt(fs["laya_conservative.png"])
               \subseteq TransparentAt(fs["laya_transparent.png"])
          /\ TransparentAt(fs["laya_transparent.png"])
               \subseteq TransparentAt(fs["laya_aggressive.png"])
          /\ ChangedAt(input0, fs["laya_conservative.png"])
               \subseteq ChangedAt(input0, fs["laya_transparent.png"])
          /\ ChangedAt(input0, fs["laya_transparent.png"])
               \subseteq ChangedAt(input0, fs["laya_aggressive.png"])

\* the larger threshold erased a pixel the smaller one kept, and both erased
\* another pixel
C9_Witness ==
  /\ pc = "h_done"
  /\ th < th2
  /\ ChangedAt(input0, fs[h_out]) # {}
  /\ ChangedAt(input0, fs[h_out]) # ChangedAt(input0, fs[h_other])

\* C10: the filter is idempotent on images: a filter function applied with
\* the same threshold to its own output writes an image identical to that
\* output, for every threshold, 0 included.
C10_Idempotent ==
  pc \in {"h_again", "h_done"} => fs[h_again] = fs[h_out]

\* the second application met an erased pixel and a kept pixel
C10_Witness ==
  /\ pc = "h_again"
  /\ th > 0
  /\ Len(input0.data) = 2
  /\ ChangedAt(input0, fs[h_out]) # {}
  /\ ChangedAt(input0, fs[h_out]) # {1, 2}
  /\ fs[h_again] = fs[h_out]

====
